---- MODULE Spec2Model ----
(***************************************************************************)
(* marker2clip: the marker-to-clip extraction pipeline.                    *)
(*   common.py   get_stash_video, save_to_local, clear_tempdir,            *)
(*               seconds_to_timecode, extract_clip, stash_log, exit_plugin *)
(*   convert.py  convert_all_markers, convert_single_scene, convert_marker *)
(*   marker2clip_functions.py  main                                        *)
(* The program is sequential: one process, one scene, one marker and one   *)
(* encoder at a time.  Paths are sequences of characters; seconds are      *)
(* counted in milliseconds.                                                *)
(***************************************************************************)
EXTENDS Integers, Sequences, FiniteSets, TLC

\* ---------------------------------------------------------------- bounds
MaxTotal == 3
MaxBatch == 2
MaxMarkers == 3
\* markers the catalog's listings hold over one run
MaxConversions == 3
\* extract_clip calls of a sequence of calls
MaxCalls == 3

\* ------------------------------------------------------ program constants
\* config.py default_settings["default_duration"]
DEFAULT_DURATION == 120
\* the durations a job trigger may carry
Durations == {DEFAULT_DURATION, 30}

\* Python's None, where a path is expected (a path is never empty)
None == <<>>
\* a local variable that was never assigned
Unbound == <<"unbound">>
\* a call that has not returned
NotReturned == <<"not returned">>

\* ------------------------------------------------------------ characters
lower_char(c) ==
    CASE c = "A" -> "a" [] c = "I" -> "i" [] c = "K" -> "k" [] c = "M" -> "m"
      [] c = "P" -> "p" [] c = "V" -> "v" [] OTHER -> c

\* str.lower()
lower(p) == [k \in 1..Len(p) |-> lower_char(p[k])]

\* str.endswith(suffix)
endswith(p, suf) ==
    /\ Len(p) >= Len(suf)
    /\ SubSeq(p, Len(p) - Len(suf) + 1, Len(p)) = suf

\* the allow-list of get_stash_video
valid ==
    { <<".", "m", "4", "v">>, <<".", "m", "p", "4">>, <<".", "m", "o", "v">>,
      <<".", "w", "m", "v">>, <<".", "a", "v", "i">>, <<".", "m", "p", "g">>,
      <<".", "m", "p", "e", "g">>, <<".", "r", "m", "v", "b">>, <<".", "r", "m">>,
      <<".", "f", "l", "v">>, <<".", "a", "s", "f">>, <<".", "m", "k", "v">>,
      <<".", "w", "e", "b", "m">>, <<".", "3", "g", "p">> }

\* str.endswith(tuple)
endswith_any(p, sufs) == \E suf \in sufs : endswith(p, suf)

has_valid_extension(path) == endswith_any(lower(path), valid)

\* re.search(r"\.([^.]+)$", path): the position of the dot that starts a
\* non-empty dot-free tail, 0 when there is none
ext_match(path) ==
    LET hits == { k \in 1..Len(path) :
                    /\ path[k] = "."
                    /\ k < Len(path)
                    /\ \A j \in (k + 1)..Len(path) : path[j] # "." }
    IN IF hits = {} THEN 0 ELSE CHOOSE k \in hits : TRUE

\* ext = "mp4"; if ext_match: ext = ext_match.group(1)
download_ext(path) ==
    IF ext_match(path) = 0 THEN <<"m", "p", "4">>
    ELSE SubSeq(path, ext_match(path) + 1, Len(path))

\* ------------------------------------------------------------- timecodes
\* seconds_to_timecode, on milliseconds: <<hours, minutes, milliseconds>>
seconds_to_timecode(ms) ==
    << ms \div 3600000, (ms % 3600000) \div 60000, ms % 60000 >>

\* ------------------------------------------------------------ file system
\* media files of the catalog
path_a == <<"/", "a", ".", "m", "p", "4">>
path_b == <<"/", "b", ".", "M", "K", "V">>
path_c == <<"/", "c", ".", "j", "p", "g">>
path_d == <<"/", "d", ".", "m", "p", "4">>
path_f == <<"/", "f">>
path_g == <<"/", "g", ".", "t", "x", "t">>
path_h == <<"/", "h", ".", "j", "p", "g">>

\* os.path.exists: the media files present on the local file system
LocalFiles == {path_a, path_b, path_c}

\* the MediaFile lists of the catalog's scenes, by scene id
FileLists ==
    << <<path_d>>, <<path_a>>, <<path_d, path_b>>, <<path_c>>, <<path_g>>,
       <<path_f>>, <<>>, <<path_h>> >>

\* scene["files"] of the scene a lookup finds
scene_files(id) == FileLists[((id - 1) % Len(FileLists)) + 1]

\* f"{directory}downloaded_{uuid.uuid4()}.{ext}"; tok stands for the token
temp_filename(tok, ext) == <<"/", "t", "/", ToString(tok), ".">> \o ext

\* responses of the streaming endpoint and of the local write
DownloadOutcomes == {"ok", "status", "transport", "oserror"}

\* save_to_local(url, ext)
save_to_local(ext, dl, tok) ==
    CASE dl = "ok" ->
           [kind |-> "return", value |-> temp_filename(tok, ext),
            wrote |-> {temp_filename(tok, ext)}]
      [] dl \in {"status", "transport"} ->
           [kind |-> "return", value |-> None, wrote |-> {}]
      [] OTHER ->
           [kind |-> "raise", value |-> None, wrote |-> {}]

\* an end of get_stash_video that returns raw unchecked
unchecked_source(path, wrote, get) ==
    [kind |-> "return", path |-> path, value |-> path,
     wrote |-> wrote, get |-> get, failed |-> FALSE]

\* the allow-list check that ends get_stash_video: raw when raw["path"],
\* lower-cased, ends with an allowed extension, None otherwise
checked_source(path, wrote, get) ==
    [kind |-> "return", path |-> path,
     value |-> IF has_valid_extension(path) THEN path ELSE None,
     wrote |-> wrote, get |-> get, failed |-> FALSE]

\* get_stash_video raising, after (get) or before a GET was issued; failed:
\* save_to_local had returned None
resolver_raises(get, failed) ==
    [kind |-> "raise", path |-> None, value |-> None, wrote |-> {},
     get |-> get, failed |-> failed]

\* what get_stash_video does with the None of a failed download:
\* raw["path"].lower() raises AttributeError
failed_download == resolver_raises(TRUE, TRUE)

\* get_stash_video(vid_data): kind "return" with value the path of the raw
\* it returns (None for a null result), or kind "raise"; path: raw["path"]
\* before the allow-list check; wrote: the temp files written; get: a GET was
\* issued; failed: the download gave a non-200 or a transport error
get_stash_video(files, dl, tok) ==
    LET hits == { k \in 1..Len(files) : files[k] \in LocalFiles }
        first == CHOOSE k \in hits : \A j \in hits : k <= j
        s == save_to_local(download_ext(files[1]), dl, tok)
    IN IF hits # {} THEN checked_source(files[first], {}, FALSE)
       ELSE IF files = <<>> THEN resolver_raises(FALSE, FALSE)
       ELSE IF s.kind = "raise" THEN resolver_raises(TRUE, FALSE)
       ELSE IF s.value = None THEN failed_download
       ELSE checked_source(s.value, s.wrote, TRUE)

\* ------------------------------------------------------------- extraction
\* the catalog's markers: marker j of scene s
Marker(s, j) ==
    [id |-> 10 * s + j, scene |-> s, seconds |-> (3661 * s + 90 * j) * 500]

\* an output path without the duration
output_path_no_duration(marker, duration) ==
    << "Clip", marker.id, "Scene", marker.scene,
       seconds_to_timecode(marker.seconds) >>

\* output_path of extract_clip
output_path(marker, duration) ==
    << "Clip", marker.id, "Scene", marker.scene,
       seconds_to_timecode(marker.seconds), duration >>

\* what the encoder process does
EncoderOutcomes == {"rc0", "fail_partial", "fail_clean", "spawn_error"}

\* a skip test that never skips
already_exists_never(out, files) == FALSE

\* the skip test of extract_clip: os.path.isfile(output_path)
already_exists(out, files) == out \in files

\* extract_clip(input_path, marker, duration, output_dir); files: the regular
\* files of output_dir
extract_clip(input_path, marker, duration, files, enc) ==
    LET out == output_path(marker, duration)
        base == [called |-> TRUE, src |-> input_path, marker |-> marker.id,
                 duration |-> duration, out |-> out]
    IN IF already_exists(out, files) THEN
           base @@ [kind |-> "return", value |-> None, invoked |-> FALSE,
                    files |-> files]
       ELSE CASE enc = "rc0" ->
                   base @@ [kind |-> "return", value |-> out, invoked |-> TRUE,
                            files |-> files \cup {out}]
              [] enc = "fail_partial" ->
                   base @@ [kind |-> "return", value |-> None, invoked |-> TRUE,
                            files |-> files \cup {out}]
              [] enc = "fail_clean" ->
                   base @@ [kind |-> "return", value |-> None, invoked |-> TRUE,
                            files |-> files]
              [] OTHER ->
                   base @@ [kind |-> "raise", value |-> None, invoked |-> TRUE,
                            files |-> files]

NoExtract ==
    [called |-> FALSE, src |-> None, marker |-> 0, duration |-> 0, out |-> None,
     kind |-> "return", value |-> None, invoked |-> FALSE]

\* an extract_clip call without the directory it leaves
call_of(x) == [f \in DOMAIN NoExtract |-> x[f]]

NoResolve ==
    [called |-> FALSE, kind |-> "return", path |-> None, value |-> None,
     wrote |-> {}, get |-> FALSE, failed |-> FALSE]

\* a convert_marker without its try/except
uncaught_exception(v, x) ==
    [value |-> None, v |-> v, x |-> x, caught |-> FALSE, propagates |-> TRUE]

\* the try/except of convert_marker: an exception raised by the resolver or
\* by extract_clip is caught and logged, and None is returned; propagates:
\* the exception leaves convert_marker
caught_exception(v, x) ==
    [value |-> None, v |-> v, x |-> x, caught |-> TRUE, propagates |-> FALSE]

\* convert_marker(stash, marker, scene, duration): value is what it returns,
\* v the resolver call it made, x the extract_clip call it made
convert_marker(marker, scene, duration, files, dl, enc, tok) ==
    LET v == get_stash_video(scene.files, dl, tok) @@ [called |-> TRUE]
        x == extract_clip(v.value, marker, duration, files, enc)
        returns(val, vv, xx) ==
            [value |-> val, v |-> vv, x |-> xx, caught |-> FALSE,
             propagates |-> FALSE]
    IN IF ~scene.found THEN returns(None, NoResolve, NoExtract)
       ELSE IF v.kind = "raise" THEN caught_exception(v, NoExtract)
       ELSE IF v.value = None THEN returns(None, v, NoExtract)
       ELSE IF x.kind = "raise" THEN caught_exception(v, x)
       ELSE returns(x.value, v, x)

\* ------------------------------------------------------------------ state
VARIABLES
    pc,          \* where the process is
    args,        \* the args of the job trigger
    output,      \* the result objects written by this process
    log,         \* the "convertMarker =" lines main logged
    sink,        \* the progress values handed to stash_log, raw and as sent
    fault,       \* the exception that ended the process, if any
    catalog,     \* number of scenes with markers the catalog holds now
    stable,      \* the catalog did not change since the run began
    outFiles,    \* regular files in OUTPUT_DIR
    tmpFiles,    \* files in STASH_TMP
    tokens,      \* temp files named so far
    batch, total, counter, current, scenes, i, results,   \* convert_all_markers
    fetches,     \* find_scenes calls of this run
    entered,     \* scenes handed to convert_single_scene in this run
    ret_all,     \* what convert_all_markers returned
    scene_id, duration, markers, scene, mcounter, mresults, result,
                 \* convert_single_scene
    ret_scene,   \* what convert_single_scene returned
    listed,      \* how get_scene_markers answered for this scene
    attempted,   \* markers handed to convert_marker for this scene
    raisedAt,    \* the turns of the marker loop in which an exception was raised
    outcomes,    \* what every convert_marker call of this run returned
    resolves,    \* get_stash_video calls for this scene
    downloads,   \* temp files written for this scene
    lastV,       \* the resolver call of the last convert_marker
    lastX,       \* the extract_clip call of the last convert_marker
    okCalls,     \* the extract_clip calls that returned a path
    work,        \* convert_marker calls so far
    xcalls       \* extract_clip calls made by a caller other than convert_marker

vars ==
    << pc, args, output, log, sink, listed, fault, catalog, stable, outFiles, tmpFiles, tokens,
       batch, total, counter, current, scenes, i, results, fetches, entered,
       ret_all, scene_id, duration, markers, scene, mcounter, mresults, result,
       ret_scene, attempted, raisedAt, outcomes, resolves, downloads, lastV,
       lastX, okCalls, work, xcalls >>

allVars == << batch, total, counter, current, scenes, i, results, fetches,
              entered, ret_all >>
sceneVars == << scene_id, duration, markers, scene, mcounter, mresults, result,
                ret_scene, listed, attempted, raisedAt, resolves, downloads, lastV,
                lastX >>
diskVars == << outFiles, tmpFiles, tokens, okCalls, work, xcalls, outcomes >>

\* what convert_all_markers returned: nothing yet, None, or a list
Pending == [kind |-> "pending", items |-> <<>>]
ReturnsNone == [kind |-> "None", items |-> <<>>]
ReturnsList(items) == [kind |-> "list", items |-> items]

NoScene == [found |-> FALSE, files |-> <<>>]

\* a fresh frame of convert_single_scene, and nothing observed of it yet
new_scene_frame ==
    /\ markers' = <<>> /\ scene' = NoScene /\ mcounter' = 0 /\ listed' = "no"
    /\ mresults' = <<>> /\ result' = Unbound
    /\ attempted' = <<>> /\ raisedAt' = {} /\ resolves' = 0 /\ downloads' = 0
    /\ lastV' = NoResolve /\ lastX' = NoExtract

Init ==
    /\ pc = "idle"
    /\ args = [mode |-> "none"]
    /\ output = <<>>
    /\ log = <<>>
    /\ sink = <<>>
    /\ listed = "no"
    /\ fault = "none"
    /\ catalog \in 0..MaxTotal
    /\ stable = TRUE
    /\ outFiles = {}
    /\ tmpFiles = {}
    /\ tokens = 0
    /\ batch = 1 /\ total = 1 /\ counter = 0 /\ current = 0
    /\ scenes = <<>> /\ i = 0 /\ results = <<>>
    /\ fetches = 0 /\ entered = <<>> /\ ret_all = Pending
    /\ scene_id = 0 /\ duration = DEFAULT_DURATION /\ markers = <<>>
    /\ scene = NoScene /\ mcounter = 0 /\ mresults = <<>> /\ result = Unbound
    /\ ret_scene = NotReturned
    /\ attempted = <<>> /\ raisedAt = {} /\ outcomes = <<>>
    /\ resolves = 0 /\ downloads = 0
    /\ lastV = NoResolve /\ lastX = NoExtract
    /\ okCalls = {}
    /\ work = 0
    /\ xcalls = 0

\* ------------------------------------------------------------------- main
\* the args a job trigger may carry; scene_id -1 stands for an absent key
\* and 0 for null, duration 0 for an absent or null value
Args ==
    { [mode |-> "none", marker_id |-> FALSE, scene_id |-> -1, duration |-> 0],
      [mode |-> "convertAll", marker_id |-> FALSE, scene_id |-> -1, duration |-> 0] }
    \cup [mode : {"convertMarker"}, marker_id : BOOLEAN,
          scene_id : -1..Len(FileLists), duration : {0} \cup Durations]

\* clear_tempdir(): glob(f"{tmpdir}*.jpg") and os.remove
clear_tempdir(files) == { f \in files : ~endswith(f, <<".", "j", "p", "g">>) }

\* main's dispatch on the args, up to the call it makes: convertMarker goes
\* on only if "marker_id" in ARGS, ARGS["scene_id"] raises KeyError when the
\* key is absent, and a null scene_id makes no call
dispatch(a) ==
    IF a.mode = "convertAll" THEN "all_page"
    ELSE IF a.mode = "convertMarker"
         THEN IF ~a.marker_id THEN "main_report"
              ELSE IF a.scene_id = -1 THEN "crashed"
              ELSE IF a.scene_id # 0 THEN "css_begin"
              ELSE "main_report"
    ELSE "main_exit"

\* duration = int(duration) if duration not in [False, None, ...] else DEFAULT_DURATION
arg_duration(a) == IF a.duration = 0 THEN DEFAULT_DURATION ELSE a.duration

\* main(): a job trigger starts the process; the temp directory is cleared
\* and the mode is dispatched
main ==
    /\ pc = "idle"
    /\ \E a \in Args :
        \E b \in (IF a.mode = "convertAll" THEN 1..MaxBatch ELSE {1}) :
          /\ args' = a
          /\ batch' = b
          /\ pc' = dispatch(a)
          /\ fault' = (IF dispatch(a) = "crashed" THEN "KeyError" ELSE fault)
          /\ scene_id' = (IF dispatch(a) = "css_begin" THEN a.scene_id ELSE 0)
          /\ entered' = (IF dispatch(a) = "css_begin" THEN <<a.scene_id>>
                         ELSE entered)
          /\ duration' = arg_duration(a)
    /\ tmpFiles' = clear_tempdir(tmpFiles)
    /\ UNCHANGED << output, log, sink, listed, catalog, stable, total, counter,
                    current, scenes, i, results, fetches, ret_all, markers,
                    scene, mcounter, mresults, result, ret_scene, attempted,
                    raisedAt, outcomes, resolves, downloads, lastV, lastX,
                    outFiles, tokens, okCalls, work, xcalls >>

\* a message of exit_plugin
ok == <<"ok">>
plugin_ended == <<"Stash2Clip plugin ended">>

\* an output_json with both fields
output_json_both(msg, err) == [output |-> msg, error |-> err]

\* output_json of exit_plugin(msg, err): the fields whose argument is not
\* None, with a default message when both are
output_json(msg, err) ==
    LET m == IF msg = None /\ err = None THEN plugin_ended ELSE msg
    IN [k \in { f \in {"output", "error"} :
                  (f = "output" /\ m # None) \/ (f = "error" /\ err # None) }
          |-> IF k = "output" THEN m ELSE err]

\* the "convertMarker =" line main logs after the call, if it made one:
\* the result when it is not None, {"result": None} otherwise
convertMarker_line(res) ==
    IF res # NotReturned /\ res # None THEN [result |-> res]
    ELSE [result |-> None]

\* the end of the convertMarker branch of main: the result line is logged,
\* and exit_plugin(msg="ok") follows, from one call site or the other
main_report ==
    /\ pc = "main_report"
    /\ log' = Append(log, convertMarker_line(ret_scene))
    /\ pc' = "main_exit"
    /\ UNCHANGED << args, output, sink, fault, catalog, stable, allVars,
                    sceneVars, diskVars >>

\* exit_plugin(msg="ok"): the result object is printed and the process ends
exit_plugin ==
    /\ pc = "main_exit"
    /\ output' = Append(output, output_json(ok, None))
    /\ pc' = "exited"
    /\ UNCHANGED << args, log, sink, fault, catalog, stable, allVars, sceneVars,
                    diskVars >>

\* --------------------------------------------------------------- progress
\* a progress value handed on as it is
stash_log_unclamped(x) == x

\* stash_log(progress, lvl="progress"): min(max(0, float(args[0])), 1) is
\* sent; a value is a fraction <<numerator, denominator>>, denominator > 0
stash_log_progress(x) ==
    IF x[1] < 0 THEN <<0, 1>> ELSE IF x[1] > x[2] THEN <<1, 1>> ELSE x

\* the sink after one more progress value; who: the loop that emitted it
emit(snk, who, x) ==
    Append(snk, [who |-> who, raw |-> x, sent |-> stash_log_progress(x)])

\* ---------------------------------------------------- convert_all_markers
\* the page find_scenes returns: scenes (n-1)*b+1 .. min(n*b, c) of c scenes
page_of(c, b, n) ==
    LET lo == (n - 1) * b
        hi == IF n * b < c THEN n * b ELSE c
    IN [k \in 1..(IF hi > lo THEN hi - lo ELSE 0) |-> lo + k]

\* a break test that lets the page starting at total through
past_the_end_late(cur, tot) == cur > tot

\* a break test that stops one scene early
past_the_end_early(cur, tot) == cur + 1 >= tot

\* if _current >= total: break
past_the_end(cur, tot) == cur >= tot

\* what the function hands back when the loop breaks: there is no return
\* statement, so None, whatever results holds
convert_all_markers_value(res) == ReturnsNone

\* one turn of the while loop up to the for loop: the page is fetched, total
\* is taken from the first page, and the loop ends when the page starts at or
\* after total; find_scenes may raise
convert_all_markers_page ==
    /\ pc = "all_page"
    /\ \E resp \in {"ok", "raise"} :
        IF resp = "raise" THEN
            /\ pc' = "crashed"
            /\ fault' = "find_scenes"
            /\ fetches' = fetches + 1
            /\ UNCHANGED << total, counter, current, scenes, i, ret_all >>
        ELSE
            LET n == counter + 1
                tot == IF n = 1 THEN catalog ELSE total
                cur == batch * (n - 1)
                page == page_of(catalog, batch, n)
            IN /\ fault' = fault
               /\ fetches' = fetches + 1
               /\ counter' = n
               /\ total' = tot
               /\ current' = cur
               /\ scenes' = page
               /\ i' = 0
               /\ IF past_the_end(cur, tot)
                  THEN /\ pc' = "main_exit"
                       /\ ret_all' = convert_all_markers_value(results)
                  ELSE /\ ret_all' = ret_all
                       /\ pc' = IF Len(page) = 0 THEN "all_page" ELSE "all_scene"
    /\ UNCHANGED << args, output, log, sink, catalog, stable, batch, results,
                    entered, sceneVars, diskVars >>

\* the head of the for loop: the scene is taken and convert_single_scene is
\* called with DEFAULT_DURATION
convert_all_markers_scene ==
    /\ pc = "all_scene"
    /\ i < Len(scenes)
    /\ current' = current - 1
    \* progress = (float(total) - float(_current)) / float(total)
    /\ sink' = emit(sink, "all", <<total - current', total>>)
    /\ scene_id' = scenes[i + 1]
    /\ entered' = Append(entered, scenes[i + 1])
    /\ duration' = DEFAULT_DURATION
    /\ ret_scene' = NotReturned
    /\ pc' = "css_begin"
    /\ UNCHANGED << args, output, log, listed, fault, markers, scene, mcounter,
                    mresults, result, attempted, raisedAt, resolves, downloads, lastV,
                    lastX, catalog, stable, batch, total, counter,
                    scenes, i, results, fetches, ret_all, diskVars >>

\* the catalog loses a scene while convert_all_markers runs (the catalog is
\* read only by find_scenes, so the change is placed before a fetch)
catalog_shrink ==
    /\ pc = "all_page"
    /\ counter >= 1
    /\ catalog > 0
    /\ catalog' = catalog - 1
    /\ stable' = FALSE
    /\ UNCHANGED << pc, args, output, log, sink, fault, allVars, sceneVars,
                    diskVars >>

\* the extract_clip calls that returned a path, after call x
ok_calls(calls, x) ==
    IF x.called /\ x.kind = "return" /\ x.value # None
    THEN calls \cup {[src |-> x.src, marker |-> x.marker,
                      duration |-> x.duration, value |-> x.value]}
    ELSE calls

\* --------------------------------------------------- convert_single_scene
\* the responses of the streaming endpoint that can tell: all of them when
\* get_stash_video issues the GET, one when it does not
downloads_possible(sc) ==
    IF sc.found /\ get_stash_video(sc.files, "ok", 0).get
    THEN DownloadOutcomes ELSE {"ok"}

\* the encoder outcomes that can tell: all of them when convert_marker
\* reaches the encoder, one when it does not
encodings_possible(m, sc, d, files, dl, tok) ==
    IF convert_marker(m, sc, d, files, dl, "rc0", tok).x.invoked
    THEN EncoderOutcomes ELSE {"rc0"}

\* stash.get_scene_markers(scene_id): the first n markers of the scene
listing(s, n) == [j \in 1..n |-> Marker(s, j)]

\* total = len(markers) if markers else 0; if total > 0: the for loop is entered
has_markers(ms) == Len(ms) > 0

\* the function up to its for loop: the markers are listed and, when there
\* are any, the scene is looked up; either call may raise, and with no
\* marker "return result" reads a local that was never assigned
convert_single_scene_begin ==
    /\ pc = "css_begin"
    /\ \E how \in {"raise", "null", "list"} :
       \E n \in (IF how = "list" THEN 0..MaxMarkers ELSE {0}) :
       \E look \in (IF n > 0 THEN {"raise", "missing", "found"} ELSE {"raise"}) :
          n <= MaxConversions - work /\
          LET ms == IF how = "list" THEN listing(scene_id, n) ELSE <<>>
          IN listed' = how /\
             IF how = "raise" THEN
                 /\ pc' = "crashed"
                 /\ fault' = "get_scene_markers"
                 /\ UNCHANGED << markers, scene >>
             ELSE IF ~has_markers(ms) THEN
                 \* return result, with result never assigned
                 /\ markers' = ms
                 /\ pc' = "crashed"
                 /\ fault' = "UnboundLocalError"
                 /\ UNCHANGED scene
             ELSE IF look = "raise" THEN
                 /\ markers' = ms
                 /\ pc' = "crashed"
                 /\ fault' = "find_scene"
                 /\ UNCHANGED scene
             ELSE
                 /\ markers' = ms
                 /\ scene' = (IF look = "found"
                              THEN [found |-> TRUE, files |-> scene_files(scene_id)]
                              ELSE NoScene)
                 /\ pc' = "css_marker"
                 /\ fault' = fault
    /\ UNCHANGED << args, output, log, sink, catalog, stable, allVars,
                    scene_id, duration, mcounter, mresults, result, ret_scene,
                    attempted, raisedAt, resolves, downloads, lastV, lastX,
                    diskVars >>

\* one turn of the for loop: convert_marker on the next marker, with what the
\* streaming endpoint (dl) and the encoder (enc) do
convert_single_scene_marker ==
    /\ pc = "css_marker"
    /\ mcounter < Len(markers)
    /\ \E dl \in downloads_possible(scene) :
       \E enc \in encodings_possible(markers[mcounter + 1], scene, duration,
                                      outFiles, dl, tokens + 1) :
       \E m \in {markers[mcounter + 1]} :
       \E r \in {convert_marker(m, scene, duration, outFiles, dl, enc, tokens + 1)} :
             /\ mcounter' = mcounter + 1
             \* progress = float(counter) / float(total)
             /\ sink' = emit(sink, "scene", <<mcounter + 1, Len(markers)>>)
             /\ attempted' = Append(attempted, m.id)
             /\ result' = r.value
             /\ mresults' = Append(mresults, r.value)
             /\ outcomes' = Append(outcomes, r.value)
             /\ raisedAt' = (IF r.caught \/ r.propagates
                             THEN raisedAt \cup {mcounter + 1} ELSE raisedAt)
             /\ fault' = (IF r.propagates THEN "convert_marker" ELSE fault)
             /\ resolves' = resolves + (IF r.v.called THEN 1 ELSE 0)
             /\ downloads' = downloads + Cardinality(r.v.wrote)
             /\ work' = work + 1
             /\ tmpFiles' = tmpFiles \cup r.v.wrote
             /\ tokens' = tokens + Cardinality(r.v.wrote)
             /\ outFiles' = (IF r.x.called THEN r.x.files ELSE outFiles)
             /\ lastV' = r.v
             /\ lastX' = call_of(r.x)
             /\ pc' = (IF r.propagates THEN "crashed"
                       ELSE IF mcounter + 1 = Len(markers) THEN "css_return"
                       ELSE "css_marker")
    /\ UNCHANGED << args, output, log, catalog, stable, allVars, scene_id,
                    duration, markers, scene, ret_scene, listed, okCalls,
                    xcalls >>

\* a return of the first outcome
convert_single_scene_first(res, all) == all[1]

\* return result
convert_single_scene_value(res, all) == res

\* "return result", and what the caller does with it: convert_all_markers
\* appends it to results and goes on with the page (sleeping after its last
\* scene), main goes on to report
convert_single_scene_return ==
    /\ pc = "css_return"
    /\ ret_scene' = convert_single_scene_value(result, mresults)
    /\ new_scene_frame
    /\ IF args.mode = "convertAll" THEN
           /\ results' = Append(results, ret_scene')
           /\ i' = i + 1
           /\ pc' = (IF i + 1 = Len(scenes) THEN "all_page" ELSE "all_scene")
       ELSE
           /\ pc' = "main_report"
           /\ UNCHANGED << results, i >>
    /\ UNCHANGED << args, output, log, sink, fault, catalog, stable, batch,
                    total, counter, current, scenes, fetches, entered, ret_all,
                    scene_id, duration, diskVars >>

Next ==
    \/ main
    \/ main_report
    \/ exit_plugin
    \/ convert_all_markers_page
    \/ convert_all_markers_scene
    \/ catalog_shrink
    \/ convert_single_scene_begin
    \/ convert_single_scene_marker
    \/ convert_single_scene_return

Spec == Init /\ [][Next]_vars

\* one turn of the marker loop, by what it does to the loop counter
marker_turn ==
    /\ pc = "css_marker"
    /\ mcounter' = mcounter + 1

\* a step of the process itself outside the marker loop, once a trigger has
\* started it: not the trigger, and not a change of the catalog
Step ==
    \/ main_report
    \/ exit_plugin
    \/ convert_all_markers_page
    \/ convert_all_markers_scene
    \/ convert_single_scene_begin
    \/ convert_single_scene_return

\* the process is sequential and every call it makes returns or raises, so
\* it takes its next step as long as it has one
FairSpec == Spec /\ WF_vars(Step) /\ WF_mcounter(marker_turn)

\* ------------------------------------------- sequences of extract_clip calls
\* the arguments of the calls: sources, markers and durations
ExtractSources == {path_a, path_b}
ExtractMarkers == {Marker(1, 1), Marker(1, 2)}

InitExtract ==
    /\ Init
    /\ catalog = 0

\* extract_clip(input_path, marker, duration, OUTPUT_DIR), called with any
\* arguments on the output directory the calls before it left
extract_clip_call ==
    /\ pc = "idle"
    /\ xcalls < MaxCalls
    /\ \E src \in ExtractSources, m \in ExtractMarkers, d \in Durations,
          enc \in EncoderOutcomes :
          LET x == extract_clip(src, m, d, outFiles, enc)
          IN /\ outFiles' = x.files
             /\ lastX' = call_of(x)
             /\ okCalls' = ok_calls(okCalls, x)
    /\ xcalls' = xcalls + 1
    /\ UNCHANGED << pc, args, output, log, sink, listed, fault, catalog, stable,
                    tmpFiles, tokens,
                    allVars, scene_id, duration, markers, scene, mcounter,
                    mresults, result, ret_scene, attempted, raisedAt, outcomes,
                    resolves, downloads, lastV, work >>

NextExtract == extract_clip_call

SpecExtract == InitExtract /\ [][NextExtract]_vars

\* ------------------------------------------ the temp directory across runs
\* get_stash_video(scene) as the runs before this one called it, each on the
\* temp directory the calls before it left
get_stash_video_call ==
    /\ pc = "idle"
    /\ tokens < MaxCalls
    /\ \E id \in 1..Len(FileLists), dl \in DownloadOutcomes :
          LET v == get_stash_video(scene_files(id), dl, tokens + 1)
                     @@ [called |-> TRUE]
          IN /\ lastV' = v
             /\ tmpFiles' = tmpFiles \cup v.wrote
             /\ tokens' = tokens + Cardinality(v.wrote)
    /\ UNCHANGED << pc, args, output, log, sink, listed, fault, catalog, stable,
                    outFiles, allVars, scene_id, duration, markers, scene,
                    mcounter, mresults, result, ret_scene, attempted, raisedAt,
                    outcomes, resolves, downloads, lastX, okCalls, work,
                    xcalls >>

NextTemp ==
    \/ get_stash_video_call
    \/ main

SpecTemp == Init /\ [][NextTemp]_vars

\* ------------------------------------------------------------- properties
\* an earlier call with the arguments of the last extract_clip call returned
\* a path
SameArguments(c, x) ==
    c.src = x.src /\ c.marker = x.marker /\ c.duration = x.duration

\* C1: extract_clip never invokes the encoder when a file exists at the
\* output path, and a call with the arguments of an earlier call that
\* returned a path (which invoked the encoder once) invokes it no more: the
\* two calls make one encoder invocation.
C1_NoEncoderForExistingFile ==
    [][ xcalls' = xcalls + 1 =>
          /\ (lastX'.invoked => lastX'.out \notin outFiles)
          /\ ((\E c \in okCalls : SameArguments(c, lastX')) => ~lastX'.invoked)
          /\ (lastX'.value # None => lastX'.invoked) ]_vars

\* a second call with the arguments of a successful one was made and skipped
C1_Witness ==
    /\ lastX.called
    /\ ~lastX.invoked
    /\ \E c \in okCalls : SameArguments(c, lastX)

\* C2: a call with the arguments of an earlier call that returned a path
\* returns that same path.
C2_SecondCallReturnsSamePath ==
    \A c \in okCalls :
        (lastX.called /\ SameArguments(c, lastX)) => lastX.value = c.value

\* ceil(total / pageSize)
PagesOf(tot, b) == (tot + b - 1) \div b

\* C3 as first stated: with the catalog unchanged and total >= 1,
\* convert_all_markers issues exactly ceil(total/pageSize) page fetches.
C3_FetchesAsStated ==
    (args.mode = "convertAll" /\ stable /\ total >= 1 /\ ret_all.kind # "pending")
        => fetches = PagesOf(total, batch)

\* C3: with the catalog unchanged and total >= 1, convert_all_markers never
\* issues more than ceil(total/pageSize) + 1 page fetches, and when its loop
\* ends it has issued exactly that many: ceil(total/pageSize) pages were
\* processed and one more page, which starts at or after total, was fetched
\* and dropped.
C3_FetchesOnePageMore ==
    (args.mode = "convertAll" /\ stable /\ counter >= 1 /\ total >= 1) =>
        /\ fetches <= PagesOf(total, batch) + 1
        /\ (ret_all.kind # "pending" =>
               /\ fetches = PagesOf(total, batch) + 1
               /\ counter - 1 = PagesOf(total, batch)
               /\ batch * (counter - 1) >= total
               /\ batch * (counter - 2) < total)

\* the loop ended over three scenes in pages of two: a last, partial page
C3_Witness ==
    /\ args.mode = "convertAll" /\ stable
    /\ ret_all.kind # "pending"
    /\ total = 3 /\ batch = 2 /\ fetches = 3

\* the markers of the scene, in listing order
ListedIds == [k \in 1..Len(markers) |-> markers[k].id]

\* C4: within one scene an exception raised while converting a marker does
\* not stop the scene: the marker's outcome is None, the loop goes on, and
\* when it ends every marker of the listing was attempted, in order.
C4_MarkerExceptionIsolated ==
    /\ \A k \in raisedAt : k <= Len(mresults) /\ mresults[k] = None
    /\ (raisedAt # {} => (pc \in {"css_marker", "css_return"} /\ fault = "none"))
    /\ (pc = "css_marker" =>
           (mcounter < Len(markers) /\ attempted = SubSeq(ListedIds, 1, mcounter)))
    /\ (pc = "css_return" => attempted = ListedIds)

\* marker 2 of 3 raised, markers 1 and 3 were converted
C4_Witness ==
    /\ pc = "css_return"
    /\ Len(markers) = 3
    /\ raisedAt = {2}
    /\ mresults[1] # None
    /\ mresults[3] # None

\* C5: in whole-catalog mode no failure while handling one scene aborts the
\* batch: when the process has ended for another reason than a failed page
\* fetch, every scene of the (unchanged) catalog was handed to
\* convert_single_scene.
C5_SceneFailureKeepsBatch ==
    (/\ args.mode = "convertAll"
     /\ pc \in {"crashed", "exited"}
     /\ fault # "find_scenes"
     /\ stable)
        => Len(entered) = total

\* no MediaFile of the scene being converted exists locally
NoLocalFile ==
    /\ scene.found
    /\ Len(scene.files) > 0
    /\ \A k \in 1..Len(scene.files) : scene.files[k] \notin LocalFiles

\* C6: for a scene without a local MediaFile the source is resolved once and
\* at most one temp file is written, however many markers it has.
C6_OneDownloadPerScene ==
    NoLocalFile => (resolves <= 1 /\ downloads <= 1)

\* C7: when the download fails, get_stash_video returns None; it does not
\* raise.
C7_FailedDownloadReturnsNone ==
    (lastV.called /\ lastV.failed) => (lastV.kind = "return" /\ lastV.value = None)

\* the path, lower-cased, ends in a dot and one of the allowed extensions
AllowedExtension(path) ==
    \E e \in { <<"m", "4", "v">>, <<"m", "p", "4">>, <<"m", "o", "v">>,
                <<"w", "m", "v">>, <<"a", "v", "i">>, <<"m", "p", "g">>,
                <<"m", "p", "e", "g">>, <<"r", "m", "v", "b">>, <<"r", "m">>,
                <<"f", "l", "v">>, <<"a", "s", "f">>, <<"m", "k", "v">>,
                <<"w", "e", "b", "m">>, <<"3", "g", "p">> } :
        /\ Len(path) > Len(e)
        /\ \A k \in 1..Len(e) :
              lower_char(path[Len(path) - Len(e) + k]) = e[k]
        /\ path[Len(path) - Len(e)] = "."

\* C8: the encoder is invoked for a marker only if the resolver returned a
\* source whose path, lower-cased, ends in an allowed extension, and that
\* source is the encoder's input; a resolved path with another extension
\* gives a null source, existing file or not, and extract_clip is not called.
C8_EncoderOnlyForAllowedSource ==
    /\ lastX.invoked =>
          /\ lastV.called /\ lastV.kind = "return"
          /\ lastV.value # None
          /\ lastX.src = lastV.value
          /\ AllowedExtension(lastV.value)
    /\ (lastV.called /\ lastV.path # None /\ ~AllowedExtension(lastV.path)) =>
          (lastV.kind = "return" /\ lastV.value = None /\ ~lastX.called)

\* a local file that exists but is no video gave a null source
C8_Witness ==
    /\ lastV.called
    /\ lastV.path = path_c
    /\ lastV.path \in LocalFiles
    /\ lastV.value = None
    /\ ~lastX.called

\* C9: convert_all_markers returns the flat list of the outcomes of the
\* markers converted during the run, in processing order.
C9_ReturnsOutcomeList ==
    ret_all.kind # "pending" => ret_all = ReturnsList(outcomes)

C11_OneResultObject ==
    pc \in {"exited", "crashed"} =>
        /\ Len(output) = 1
        /\ DOMAIN output[1] \cap {"output", "error"} # {}

\* C12: a trigger with mode convertMarker and a scene identifier, whatever
\* else it carries, has convert_single_scene called for that scene, with
\* the override duration when given and the default duration otherwise.
C12_SceneIdSuffices ==
    (pc # "idle" /\ args.mode = "convertMarker" /\ args.scene_id >= 1) =>
        /\ entered = <<args.scene_id>>
        /\ duration = (IF args.duration # 0 THEN args.duration
                       ELSE DEFAULT_DURATION)

\* C13: every value sent to the progress sink, by the scene loop of
\* convert_all_markers or the marker loop of convert_single_scene, lies in
\* [0, 1].
C13_ProgressInUnitInterval ==
    \A k \in 1..Len(sink) :
        /\ sink[k].sent[2] > 0
        /\ 0 <= sink[k].sent[1]
        /\ sink[k].sent[1] <= sink[k].sent[2]

\* a computed progress above 1 was sent as 1
C13_Witness ==
    \E k \in 1..Len(sink) :
        /\ sink[k].raw[1] > sink[k].raw[2]
        /\ sink[k].sent = <<1, 1>>

\* a file save_to_local named: downloaded_<token>.<ext>
IsDownload(f) ==
    \E t \in 1..tokens :
        /\ Len(f) >= Len(temp_filename(t, <<>>))
        /\ SubSeq(f, 1, Len(temp_filename(t, <<>>))) = temp_filename(t, <<>>)

\* C14: once main has cleared the temp directory, no file the resolver
\* downloaded in an earlier run is left in it, whatever its extension.
C14_NoDownloadSurvivesCleanup ==
    pc # "idle" => \A f \in tmpFiles : ~IsDownload(f)

\* C15: the output path is a function of marker id, scene id, start timecode
\* and duration alone, and differs when the duration differs; so a call
\* skips only when its own path exists, whatever the other durations left,
\* and it changes no file but its own.
C15_DurationInOutputPath ==
    [][ xcalls' = xcalls + 1 =>
          /\ \A m1 \in ExtractMarkers, m2 \in ExtractMarkers :
             \A d1 \in Durations, d2 \in Durations :
                (output_path(m1, d1) = output_path(m2, d2)) <=>
                    /\ m1.id = m2.id /\ m1.scene = m2.scene
                    /\ seconds_to_timecode(m1.seconds)
                         = seconds_to_timecode(m2.seconds)
                    /\ d1 = d2
          /\ \A m \in ExtractMarkers :
                lastX'.marker = m.id =>
                    lastX'.out = output_path(m, lastX'.duration)
          /\ (lastX'.invoked <=> lastX'.out \notin outFiles)
          /\ outFiles' \ {lastX'.out} = outFiles \ {lastX'.out} ]_vars

\* marker 11 was extracted with duration 30 while its clip of 120 seconds
\* existed, and both files are there
C15_Witness ==
    /\ lastX.called /\ lastX.invoked
    /\ lastX.marker = 11 /\ lastX.duration = 30
    /\ lastX.value = lastX.out
    /\ {output_path(Marker(1, 1), DEFAULT_DURATION), lastX.out} \subseteq outFiles
    /\ output_path(Marker(1, 1), DEFAULT_DURATION) # lastX.out

\* C16: with the catalog unchanged, convert_all_markers hands the scenes to
\* convert_single_scene in catalog order, none skipped and none repeated,
\* and when its loop ends every one of the total scenes was handed over
\* once, those of a last partial page included.
C16_EachSceneOnce ==
    (args.mode = "convertAll" /\ stable /\ counter >= 1) =>
        /\ Len(entered) <= total
        /\ \A k \in 1..Len(entered) : entered[k] = k
        /\ (ret_all.kind # "pending" => Len(entered) = total)

\* three scenes in pages of two were all handed over, and the loop ended
C16_Witness ==
    /\ args.mode = "convertAll" /\ stable
    /\ ret_all.kind # "pending"
    /\ batch = 2
    /\ entered = <<1, 2, 3>>

\* C17: convert_all_markers terminates: total is fixed by the first page,
\* page n is processed only while pageSize*(n-1) < total, no page is fetched
\* after the first that starts at or after total, a short or empty page
\* raises nothing, and the loop, once entered, ends (by its break, or by an
\* exception of a call it makes).
C17_Terminates ==
    /\ []((args.mode = "convertAll" /\ counter >= 1) =>
             batch * (counter - 1) < total + batch)
    /\ []((args.mode = "convertAll"
            /\ pc \in {"all_scene", "css_begin", "css_marker", "css_return"}) =>
             batch * (counter - 1) < total)
    /\ [][(args.mode = "convertAll" /\ counter >= 1) => total' = total]_vars
    /\ [][(pc = "all_page" /\ pc' = "crashed") => fault' = "find_scenes"]_vars
    /\ ((pc = "all_page") ~> (ret_all.kind # "pending" \/ pc = "crashed"))

\* the catalog shrank during the run, pages came back short, and the run
\* ended by its break with fewer scenes handed over than total
C17_Witness ==
    /\ args.mode = "convertAll" /\ ~stable
    /\ ret_all.kind # "pending"
    /\ pc = "exited" /\ fault = "none"
    /\ Len(entered) < total

\* the progress values of the scene loop of convert_all_markers
AllSink == SelectSeq(sink, LAMBDA e : e.who = "all")

\* C18: in whole-catalog mode, with the catalog unchanged, the value sent
\* for the k-th scene of the run is k/total.
C18_ProgressIsShareDone ==
    (args.mode = "convertAll" /\ stable) =>
        \A k \in 1..Len(AllSink) :
            AllSink[k].sent[1] * total = k * AllSink[k].sent[2]

\* C19: when the marker listing of a scene is empty or null,
\* convert_single_scene returns without raising, and without a scene
\* lookup, a resolver call or an encoder call.
C19_EmptyListingReturns ==
    (listed \in {"null", "list"} /\ Len(markers) = 0) =>
        /\ pc # "crashed" /\ fault = "none"
        /\ ~scene.found /\ resolves = 0 /\ ~lastX.called

\* C20: the handler never emits an error field, and in convertMarker mode a
\* null result of convert_single_scene is followed by the null-result log
\* line and then by the result object with output "ok".
C20_NullResultReportsOk ==
    /\ \A k \in 1..Len(output) : "error" \notin DOMAIN output[k]
    /\ (output # <<>> /\ args.mode = "convertMarker") => Len(log) = 1
    /\ (args.mode = "convertMarker" /\ ret_scene = None
          /\ pc \in {"main_exit", "exited"}) =>
            log = << [result |-> None] >>
    /\ (args.mode = "convertMarker" /\ ret_scene = None /\ pc = "exited") =>
            /\ Len(output) = 1
            /\ DOMAIN output[1] = {"output"}
            /\ output[1]["output"] = ok

\* a single-scene run whose only marker failed in the encoder ended with the
\* null-result line and output "ok"
C20_Witness ==
    /\ args.mode = "convertMarker" /\ pc = "exited"
    /\ ret_scene = None
    /\ work >= 1 /\ outFiles # {}
    /\ log = << [result |-> None] >>
    /\ Len(output) = 1

\* C21: over one whole-catalog run with an unchanged catalog, the values the
\* scene loop sends to the progress sink never decrease, and the value sent
\* for the last scene of the run is 1.
C21_ProgressRisesToOne ==
    (args.mode = "convertAll" /\ stable) =>
        /\ \A k \in 1..(Len(AllSink) - 1) :
              AllSink[k].sent[1] * AllSink[k + 1].sent[2]
                  <= AllSink[k + 1].sent[1] * AllSink[k].sent[2]
        /\ (ret_all.kind # "pending" /\ Len(AllSink) > 0) =>
              AllSink[Len(AllSink)].sent[1] = AllSink[Len(AllSink)].sent[2]

\* C22: extract_clip skips only when an earlier call's encoder exited with
\* status 0 for that output path; after a failed encoder run that left a
\* partial file, a call with the same arguments invokes the encoder again.
C22_SkipsOnlyFinishedClips ==
    (lastX.called /\ ~lastX.invoked) =>
        \E c \in okCalls : c.value = lastX.out

====
